---- MODULE Spec2Model ----
(***************************************************************************)
(* binarydrop: the process Supervisor (src/src/supervisor.rs), the start   *)
(* command it launches processes through (commands/app_command/start.rs),  *)
(* the restart policy of the App model (models.rs) and the store contract  *)
(* (db.rs) they share with the admin/CLI commands.                         *)
(*                                                                         *)
(* The Supervisor is one consumer task: it takes one message at a time     *)
(* from its channel and runs the handler to completion.  A handler is      *)
(* modelled as the sequence of its awaits (store reads and writes, sleeps, *)
(* the spawn); pc is the consumer's position, stack the handlers that      *)
(* called the running one, lapp the handler's local copy of the record.    *)
(* In Spec the admin/CLI commands, which run in other tasks or processes,  *)
(* take effect between two messages of the Supervisor, and the Gateway     *)
(* (commands/server_command/serve.rs) serves its requests there too.       *)
(* SpecQ has the channel: senders append messages while the consumer       *)
(* works.  SpecRace lets the commands run at any point of a handler.       *)
(* SpecLive is the Supervisor alone with the progress of a running handler *)
(* assumed.  SpecCreate has create called with arbitrary texts as names.   *)
(* SpecQLive is SpecQ with the progress of the loop.  SpecEnv has the env  *)
(* command of the CLI, whose read and save are two steps (cli is its copy  *)
(* of the record), running beside the Supervisor.                          *)
(***************************************************************************)
EXTENDS Integers, Sequences, FiniteSets, TLC

\* ---------------------------------------------------------------- bounds
Names == {"svc1"}
MaxPid == 2
MaxCount == 2
MaxCap == 1
Hashes == {1, 2}
ExitCodes == {0, 1}

\* ------------------------------------------------------ program constants
DefaultMaxRestarts == 5

\* ----------------------------------------------------------- Option<T>
None == <<>>
Some(v) == <<v>>
IsSome(o) == o # <<>>
Unwrap(o) == o[1]

\* -------------------------------------------------------------- models.rs
AppStates == {"Created", "Deployed", "Starting", "Running", "Stopping",
              "Stopped", "Failed", "Restarting", "Crashed"}
RestartPolicies == {"Always", "OnFailure", "Never"}

NoApp == [exists |-> FALSE, state |-> "Created", binary_path |-> None,
          binary_hash |-> None, process_id |-> None,
          restart_policy |-> "OnFailure", max_restarts |-> None,
          restart_count |-> 0, last_exit_code |-> None,
          health_check |-> FALSE]

AppNew == [NoApp EXCEPT !.exists = TRUE,
                        !.max_restarts = Some(DefaultMaxRestarts),
                        !.health_check = TRUE]

\* variant: Always looks at the exit code as OnFailure does
should_restart_AlwaysByCode(app) ==
    CASE app.restart_policy = "Never" -> FALSE
      [] OTHER ->
            (IF IsSome(app.last_exit_code) THEN Unwrap(app.last_exit_code) ELSE 0) # 0

\* variant: OnFailure never restarts
should_restart_OnFailureNever(app) ==
    app.restart_policy = "Always"

\* variant: OnFailure restarts on every exit
should_restart_OnFailureAlways(app) ==
    app.restart_policy # "Never"

should_restart(app) ==
    CASE app.restart_policy = "Always" -> TRUE
      [] app.restart_policy = "Never" -> FALSE
      [] app.restart_policy = "OnFailure" ->
            (IF IsSome(app.last_exit_code) THEN Unwrap(app.last_exit_code) ELSE 0) # 0

\* variant: there is no cap
reached_max_restarts_NoCap(app) == FALSE

\* variant: the cap is compared with > instead of >=
reached_max_restarts_Strict(app) ==
    IF IsSome(app.max_restarts)
    THEN app.restart_count > Unwrap(app.max_restarts)
    ELSE FALSE

reached_max_restarts(app) ==
    IF IsSome(app.max_restarts)
    THEN app.restart_count >= Unwrap(app.max_restarts)
    ELSE FALSE

is_running(app) == app.state = "Running"

is_deployed(app) == app.state = "Deployed"

NewHistory == [ended_at |-> FALSE, exit_code |-> None, exit_reason |-> None]

\* ------------------------------------------------------------------ state
VARIABLES db, hist, procs, nextPid, pc, stack, cur, lapp, child,
          xcode, todo, snap, lastResult, queue, cli

vars == <<db, hist, procs, nextPid, pc, stack, cur, lapp, child,
          xcode, todo, snap, lastResult, queue, cli>>

MsgKinds == {"Start", "Stop", "Restart", "CheckHealth", "ProcessExit"}
NoMsg == [kind |-> "none", name |-> "", code |-> 0]
NoResult == [kind |-> "none", name |-> "", res |-> "none"]

\* the copy of a record that a command of the CLI holds between its read
\* and its save
NoCli == [name |-> "", app |-> NoApp]

\* -------------------------------------------------------------- db.rs
get_by_name(n) == db[n]

get_by_state(s) == {n \in Names : db[n].exists /\ db[n].state = s}

apps_save(app, n) == [db EXCEPT ![n] = [app EXCEPT !.exists = TRUE]]

\* process_history::save with ended_at = None inserts a row
history_insert(n, row) == [hist EXCEPT ![n] = Append(@, row)]


\* variant: the rows are read oldest first
update_process_history_Oldest(n, exit_code, exit_reason) ==
    IF hist[n] = <<>> THEN hist
    ELSE [hist EXCEPT ![n][1] =
            [ended_at |-> TRUE, exit_code |-> exit_code,
             exit_reason |-> Some(exit_reason)]]

\* update_process_history: close the newest row of the app, if there is one
update_process_history(n, exit_code, exit_reason) ==
    IF hist[n] = <<>> THEN hist
    ELSE [hist EXCEPT ![n][Len(hist[n])] =
            [ended_at |-> TRUE, exit_code |-> exit_code,
             exit_reason |-> Some(exit_reason)]]

\* ------------------------------------------------------------- control
Top(stk) == stk[Len(stk)]
Pop(stk) == SubSeq(stk, 1, Len(stk) - 1)

\* Where the consumer continues when `callee` returns r to the handler on
\* top of stk; fin when the message loop itself gets the result.
RECURSIVE Ret(_, _, _)
Ret(stk, callee, r) ==
    IF stk = <<>>
    THEN [pc |-> "idle", stack |-> <<>>, fin |-> TRUE, res |-> r]
    ELSE CASE Top(stk) = "Restart" /\ callee = "Stop" /\ r = "Ok" ->
                [pc |-> "rs_sleep", stack |-> Pop(stk), fin |-> FALSE, res |-> r]
           [] Top(stk) = "Restart" /\ ~(callee = "Stop" /\ r = "Ok") ->
                Ret(Pop(stk), "Restart", r)
           [] Top(stk) = "ProcessExit" ->
                Ret(Pop(stk), "ProcessExit", r)
           [] Top(stk) = "restore" ->
                [pc |-> IF r = "Ok" THEN "restore_next" ELSE "restore_demote",
                 stack |-> Pop(stk), fin |-> FALSE, res |-> r]
           [] Top(stk) = "tick" /\ callee = "CheckHealth" /\ r # "Ok" ->
                [pc |-> "rs_get", stack |-> stk, fin |-> FALSE, res |-> r]
           [] Top(stk) = "tick" /\ ~(callee = "CheckHealth" /\ r # "Ok") ->
                [pc |-> "tick_next", stack |-> Pop(stk), fin |-> FALSE, res |-> r]

Finish(callee, r) ==
    LET k == Ret(stack, callee, r) IN
    /\ pc' = k.pc
    /\ stack' = k.stack
    /\ lastResult' = IF k.fin
                     THEN [kind |-> cur.kind, name |-> cur.name, res |-> r]
                     ELSE lastResult
    /\ cur' = IF k.fin THEN NoMsg ELSE cur
    /\ lapp' = NoApp
    /\ child' = None
    /\ xcode' = None

Goto(p, a, c, x) ==
    /\ pc' = p
    /\ lapp' = a
    /\ child' = c
    /\ xcode' = x
    /\ UNCHANGED <<stack, lastResult, cur>>

Call(p, frame) ==
    /\ pc' = p
    /\ stack' = Append(stack, frame)
    /\ lapp' = NoApp
    /\ child' = None
    /\ xcode' = None
    /\ UNCHANGED <<lastResult, cur>>

\* ------------------------------------------------------------------ Init
InitApps ==
    {[AppNew EXCEPT !.state = s,
                    !.binary_path = Some(1),
                    !.binary_hash = Some(1),
                    !.process_id = IF s = "Running" THEN Some(0) ELSE None,
                    !.restart_policy = p,
                    !.max_restarts = m,
                    !.health_check = h] :
        s \in {"Deployed", "Running"}, p \in RestartPolicies,
        m \in {None} \cup {Some(c) : c \in 0..MaxCap}, h \in BOOLEAN}

Init ==
    /\ \E a \in InitApps : db = [n \in Names |-> IF n = "svc1" THEN a ELSE NoApp]
    /\ hist = [n \in Names |-> <<>>]
    /\ procs = [n \in Names |-> None]
    /\ nextPid = 0
    /\ pc = "restore_get"
    /\ stack = <<>>
    /\ cur = NoMsg
    /\ lapp = NoApp
    /\ child = None
    /\ xcode = None
    /\ todo = {}
    /\ snap = [n \in Names |-> NoApp]
    /\ lastResult = NoResult
    /\ queue = <<>>
    /\ cli = NoCli

\* ------------------------------------------- Supervisor: consumer loop
\* rx.recv() hands the loop the next message; what the senders (start_app,
\* stop_app, restart_app, check_app_health, notify_process_exit) put on the
\* channel is an input
Messages ==
    [kind : MsgKinds \ {"ProcessExit"}, name : Names, code : {0}]
        \cup [kind : {"ProcessExit"}, name : Names, code : ExitCodes]

Entry(kind) ==
    CASE kind = "Start" -> "hs_get"
      [] kind = "Stop" -> "st_get"
      [] kind = "Restart" -> "rs_get"
      [] kind = "CheckHealth" -> "hc_get"
      [] kind = "ProcessExit" -> "pe_get"

Dispatch ==
    /\ pc = "idle"
    /\ lastResult = NoResult
    /\ \E msg \in Messages :
          /\ msg.kind = "ProcessExit" => db[msg.name].restart_count < MaxCount
          /\ cur' = msg
          /\ pc' = Entry(msg.kind)
    /\ lastResult' = NoResult
    /\ UNCHANGED <<db, hist, procs, nextPid, stack, lapp, child, xcode,
                   todo, snap>>
    /\ UNCHANGED <<queue, cli>>

\* ------------------------------------------------ handle_start
\* variant: the process table is not consulted
HandleStartGet_NoTableCheck ==
    /\ pc = "hs_get"
    /\ LET app == get_by_name(cur.name) IN
       IF ~app.exists THEN Finish("Start", "AppNotFound")
       ELSE Goto("ex_get", NoApp, None, None)
    /\ UNCHANGED <<db, hist, procs, nextPid, todo, snap>>
    /\ UNCHANGED <<queue, cli>>

HandleStartGet ==
    /\ pc = "hs_get"
    /\ LET app == get_by_name(cur.name) IN
       IF ~app.exists THEN Finish("Start", "AppNotFound")
       ELSE IF IsSome(procs[cur.name]) THEN Finish("Start", "AppAlreadyRunning")
       ELSE Goto("ex_get", NoApp, None, None)
    /\ UNCHANGED <<db, hist, procs, nextPid, todo, snap>>
    /\ UNCHANGED <<queue, cli>>

\* ------------------------------------------------ start::execute
\* variant: the deployed checks are missing
ExecGet_NoDeployCheck ==
    /\ pc = "ex_get"
    /\ LET app == get_by_name(cur.name) IN
       IF ~app.exists THEN Finish("Start", "AppNotFound")
       ELSE IF is_running(app) THEN Finish("Start", "AppAlreadyRunning")
       ELSE Goto("ex_save_starting", [app EXCEPT !.state = "Starting"], None, None)
    /\ UNCHANGED <<db, hist, procs, nextPid, todo, snap>>
    /\ UNCHANGED <<queue, cli>>

ExecGet ==
    /\ pc = "ex_get"
    /\ LET app == get_by_name(cur.name) IN
       IF ~app.exists THEN Finish("Start", "AppNotFound")
       ELSE IF is_running(app) THEN Finish("Start", "AppAlreadyRunning")
       ELSE IF ~is_deployed(app) THEN Finish("Start", "AppNotDeployed")
       ELSE IF ~IsSome(app.binary_path) THEN Finish("Start", "AppNotDeployed")
       ELSE Goto("ex_save_starting", [app EXCEPT !.state = "Starting"], None, None)
    /\ UNCHANGED <<db, hist, procs, nextPid, todo, snap>>
    /\ UNCHANGED <<queue, cli>>

\* variant: Starting is set on the local copy only
ExecSaveStarting_NoSave ==
    /\ pc = "ex_save_starting"
    /\ Goto("ex_spawn", lapp, None, None)
    /\ UNCHANGED <<db, hist, procs, nextPid, todo, snap>>
    /\ UNCHANGED <<queue, cli>>

ExecSaveStarting ==
    /\ pc = "ex_save_starting"
    /\ db' = apps_save(lapp, cur.name)
    /\ Goto("ex_spawn", lapp, None, None)
    /\ UNCHANGED <<hist, procs, nextPid, todo, snap>>
    /\ UNCHANGED <<queue, cli>>

StartFailures == {"AppLogBroken", "AppDirectoryBroken", "AppStartFailed"}

ExecSpawn ==
    /\ pc = "ex_spawn"
    /\ \/ /\ \E e \in StartFailures : Finish("Start", e)
          /\ UNCHANGED nextPid
       \/ /\ nextPid < MaxPid
          /\ nextPid' = nextPid + 1
          /\ Goto("ex_hist", lapp, Some(nextPid + 1), None)
    /\ UNCHANGED <<db, hist, procs, todo, snap>>
    /\ UNCHANGED <<queue, cli>>

ExecHistory ==
    /\ pc = "ex_hist"
    /\ hist' = history_insert(cur.name, NewHistory)
    /\ Goto("ex_save_running", lapp, child, None)
    /\ UNCHANGED <<db, procs, nextPid, todo, snap>>
    /\ UNCHANGED <<queue, cli>>

\* the last save of execute, then start_process puts the handle in the table
ExecSaveRunning ==
    /\ pc = "ex_save_running"
    /\ db' = apps_save([lapp EXCEPT !.process_id = child, !.state = "Running"],
                       cur.name)
    /\ procs' = [procs EXCEPT ![cur.name] = child]
    /\ Finish("Start", "Ok")
    /\ UNCHANGED <<hist, nextPid, todo, snap>>
    /\ UNCHANGED <<queue, cli>>

\* ------------------------------------------------ handle_stop
StopGet ==
    /\ pc = "st_get"
    /\ LET app == get_by_name(cur.name) IN
       IF ~app.exists
       THEN Finish("Stop", "AppNotFound") /\ UNCHANGED procs
       ELSE /\ procs' = [procs EXCEPT ![cur.name] = None]
            /\ IF IsSome(procs[cur.name])
               THEN Goto("st_save_stopping", app, procs[cur.name], None)
               ELSE Goto("st_save_noproc", app, None, None)
    /\ UNCHANGED <<db, hist, nextPid, todo, snap>>
    /\ UNCHANGED <<queue, cli>>

StopSaveStopping ==
    /\ pc = "st_save_stopping"
    /\ db' = apps_save([lapp EXCEPT !.state = "Stopping"], cur.name)
    /\ Goto("st_kill", [lapp EXCEPT !.state = "Stopping"], child, None)
    /\ UNCHANGED <<hist, procs, nextPid, todo, snap>>
    /\ UNCHANGED <<queue, cli>>

\* child.kill() then child.wait(); a process killed by the signal has no
\* exit code, one that had already exited reports its own
StopKill ==
    /\ pc = "st_kill"
    /\ \/ \E e \in {"KillFailed", "WaitFailed"} : Finish("Stop", e)
       \/ \E x \in {None} \cup {Some(c) : c \in ExitCodes} :
             Goto("st_hist", lapp, child, x)
    /\ UNCHANGED <<db, hist, procs, nextPid, todo, snap>>
    /\ UNCHANGED <<queue, cli>>

StopHistory ==
    /\ pc = "st_hist"
    /\ hist' = update_process_history(cur.name, xcode, "Stopped by user")
    /\ Goto("st_save_stopped", lapp, child, xcode)
    /\ UNCHANGED <<db, procs, nextPid, todo, snap>>
    /\ UNCHANGED <<queue, cli>>

StopSaveStopped ==
    /\ pc = "st_save_stopped"
    /\ db' = apps_save([lapp EXCEPT !.state = "Stopped",
                                    !.process_id = None,
                                    !.last_exit_code = xcode], cur.name)
    /\ Finish("Stop", "Ok")
    /\ UNCHANGED <<hist, procs, nextPid, todo, snap>>
    /\ UNCHANGED <<queue, cli>>

\* variant: the process_id of the record is left as it is
StopSaveNoProc_KeepPid ==
    /\ pc = "st_save_noproc"
    /\ db' = apps_save([lapp EXCEPT !.state = "Stopped"], cur.name)
    /\ Finish("Stop", "Ok")
    /\ UNCHANGED <<hist, procs, nextPid, todo, snap>>
    /\ UNCHANGED <<queue, cli>>

\* no handle in the table: reconcile the record
StopSaveNoProc ==
    /\ pc = "st_save_noproc"
    /\ db' = apps_save([lapp EXCEPT !.state = "Stopped",
                                    !.process_id = None], cur.name)
    /\ Finish("Stop", "Ok")
    /\ UNCHANGED <<hist, procs, nextPid, todo, snap>>
    /\ UNCHANGED <<queue, cli>>

\* ------------------------------------------------ handle_restart
RestartGet ==
    /\ pc = "rs_get"
    /\ LET app == get_by_name(cur.name) IN
       IF ~app.exists THEN Finish("Restart", "AppNotFound")
       ELSE IF app.state = "Running" THEN Call("st_get", "Restart")
       ELSE Goto("rs_sleep", NoApp, None, None)
    /\ UNCHANGED <<db, hist, procs, nextPid, todo, snap>>
    /\ UNCHANGED <<queue, cli>>

RestartSleep ==
    /\ pc = "rs_sleep"
    /\ Call("hs_get", "Restart")
    /\ UNCHANGED <<db, hist, procs, nextPid, todo, snap>>
    /\ UNCHANGED <<queue, cli>>

\* ------------------------------------------------ handle_process_exit
ExitReason(code) == IF code = 0 THEN "Clean exit" ELSE "Crashed"

\* variant: the two states are swapped
ExitState_Swapped(code) == IF code = 0 THEN "Failed" ELSE "Stopped"

\* the state of an app that is not restarted
ExitState(code) == IF code = 0 THEN "Stopped" ELSE "Failed"

ExitGet ==
    /\ pc = "pe_get"
    /\ LET app == get_by_name(cur.name) IN
       IF ~app.exists
       THEN Finish("ProcessExit", "AppNotFound") /\ UNCHANGED procs
       ELSE /\ procs' = [procs EXCEPT ![cur.name] = None]
            /\ Goto("pe_hist", [app EXCEPT !.process_id = None,
                                           !.last_exit_code = Some(cur.code)],
                    None, None)
    /\ UNCHANGED <<db, hist, nextPid, todo, snap>>
    /\ UNCHANGED <<queue, cli>>

ExitHistory ==
    /\ pc = "pe_hist"
    /\ hist' = update_process_history(cur.name, Some(cur.code), ExitReason(cur.code))
    /\ Goto("pe_decide", lapp, None, None)
    /\ UNCHANGED <<db, procs, nextPid, todo, snap>>
    /\ UNCHANGED <<queue, cli>>

ExitDecide ==
    /\ pc = "pe_decide"
    /\ IF should_restart(lapp)
       THEN IF reached_max_restarts(lapp)
            THEN /\ db' = apps_save([lapp EXCEPT !.state = "Crashed"], cur.name)
                 /\ Finish("ProcessExit", "MaxRestarts")
            ELSE /\ lapp.restart_count < MaxCount
                 /\ db' = apps_save([lapp EXCEPT !.state = "Restarting",
                                                 !.restart_count = @ + 1],
                                    cur.name)
                 /\ Goto("pe_sleep", [lapp EXCEPT !.state = "Restarting",
                                                  !.restart_count = @ + 1],
                         None, None)
       ELSE /\ db' = apps_save([lapp EXCEPT !.state = ExitState(cur.code)],
                               cur.name)
            /\ Finish("ProcessExit", "Ok")
    /\ UNCHANGED <<hist, procs, nextPid, todo, snap>>
    /\ UNCHANGED <<queue, cli>>

\* the backoff sleep, then start_process
ExitSleep ==
    /\ pc = "pe_sleep"
    /\ Call("ex_get", "ProcessExit")
    /\ UNCHANGED <<db, hist, procs, nextPid, todo, snap>>
    /\ UNCHANGED <<queue, cli>>

\* ------------------------------------------------ handle_health_check
HealthGet ==
    /\ pc = "hc_get"
    /\ LET app == get_by_name(cur.name) IN
       IF ~app.exists THEN Finish("CheckHealth", "AppNotFound")
       ELSE IF app.state # "Running" THEN Finish("CheckHealth", "Ok")
       ELSE IF ~app.health_check THEN Finish("CheckHealth", "Ok")
       ELSE IF ~IsSome(procs[cur.name]) THEN Finish("CheckHealth", "NotInProcessMap")
       ELSE Goto("hc_http", app, None, None)
    /\ UNCHANGED <<db, hist, procs, nextPid, todo, snap>>
    /\ UNCHANGED <<queue, cli>>

HealthHttp ==
    /\ pc = "hc_http"
    /\ \E r \in {"Ok", "HealthCheckFailed"} : Finish("CheckHealth", r)
    /\ UNCHANGED <<db, hist, procs, nextPid, todo, snap>>
    /\ UNCHANGED <<queue, cli>>

\* ------------------------------------------------ run_health_checks
Tick ==
    /\ pc = "idle"
    /\ lastResult = NoResult
    /\ todo' = {n \in get_by_state("Running") : db[n].health_check}
    /\ pc' = "tick_next"
    /\ cur' = [kind |-> "tick", name |-> "", code |-> 0]
    /\ lastResult' = NoResult
    /\ UNCHANGED <<db, hist, procs, nextPid, stack, lapp, child, xcode,
                   snap>>
    /\ UNCHANGED <<queue, cli>>

TickNext ==
    /\ pc = "tick_next"
    /\ IF todo = {}
       THEN /\ pc' = "idle"
            /\ cur' = NoMsg
            /\ UNCHANGED <<todo, stack>>
       ELSE \E n \in todo :
            /\ todo' = todo \ {n}
            /\ cur' = [kind |-> "tick", name |-> n, code |-> 0]
            /\ pc' = "hc_get"
            /\ stack' = <<"tick">>
    /\ UNCHANGED <<db, hist, procs, nextPid, lapp, child, xcode, snap,
                   lastResult>>
    /\ UNCHANGED <<queue, cli>>

\* ------------------------------------------------ restore_running_apps
RestoreGet ==
    /\ pc = "restore_get"
    /\ todo' = get_by_state("Running")
    /\ snap' = [n \in Names |-> IF n \in get_by_state("Running") THEN db[n] ELSE NoApp]
    /\ pc' = "restore_next"
    /\ UNCHANGED <<db, hist, procs, nextPid, stack, cur, lapp, child,
                   xcode, lastResult>>
    /\ UNCHANGED <<queue, cli>>

RestoreNext ==
    /\ pc = "restore_next"
    /\ IF todo = {}
       THEN /\ pc' = "idle"
            /\ snap' = [n \in Names |-> NoApp]
            /\ cur' = NoMsg
            /\ UNCHANGED <<todo, stack>>
       ELSE \E n \in todo :
            /\ todo' = todo \ {n}
            /\ cur' = [kind |-> "restore", name |-> n, code |-> 0]
            /\ pc' = "ex_get"
            /\ stack' = <<"restore">>
            /\ UNCHANGED snap
    /\ UNCHANGED <<db, hist, procs, nextPid, lapp, child, xcode,
                   lastResult>>
    /\ UNCHANGED <<queue, cli>>

RestoreDemote ==
    /\ pc = "restore_demote"
    /\ db' = apps_save([snap[cur.name] EXCEPT !.state = "Failed"], cur.name)
    /\ pc' = "restore_next"
    /\ UNCHANGED <<hist, procs, nextPid, stack, cur, lapp, child, xcode,
                   todo, snap, lastResult>>
    /\ UNCHANGED <<queue, cli>>

\* ------------------------------------------------ admin API / CLI commands
\* They run outside the consumer task, straight on the store.  Each
\* *_execute below is the effect of one command on the store with its
\* result r; in Spec a command takes effect between two messages of the
\* Supervisor, in SpecRace at any point of a handler.

\* create::execute
create_execute(n, r) ==
    IF get_by_name(n).exists
    THEN /\ r = "AppAlreadyExists"
         /\ UNCHANGED <<db, hist, nextPid>>
    ELSE /\ r = "Ok"
         /\ db' = apps_save(AppNew, n)
         /\ UNCHANGED <<hist, nextPid>>

\* variant: the hash of the upload is not compared with the stored one
deploy_execute_NoHashCheck(n, h, r) ==
    LET app == get_by_name(n) IN
    IF ~app.exists
    THEN /\ r = "AppNotFound"
         /\ UNCHANGED <<db, hist, nextPid>>
    ELSE /\ r = "Ok"
         /\ db' = apps_save([app EXCEPT !.state = "Deployed",
                                        !.binary_path = Some(1),
                                        !.binary_hash = Some(h)], n)
         /\ UNCHANGED <<hist, nextPid>>

\* variant: the state is left as it was
deploy_execute_KeepState(n, h, r) ==
    LET app == get_by_name(n) IN
    IF ~app.exists
    THEN /\ r = "AppNotFound"
         /\ UNCHANGED <<db, hist, nextPid>>
    ELSE IF app.binary_hash = Some(h)
    THEN /\ r = "Ok"
         /\ UNCHANGED <<db, hist, nextPid>>
    ELSE /\ r = "Ok"
         /\ db' = apps_save([app EXCEPT !.binary_path = Some(1),
                                        !.binary_hash = Some(h)], n)
         /\ UNCHANGED <<hist, nextPid>>

\* deploy::execute; h is the sha256 of the uploaded bytes, the binary is
\* copied to the one path of the app
deploy_execute(n, h, r) ==
    LET app == get_by_name(n) IN
    IF ~app.exists
    THEN /\ r = "AppNotFound"
         /\ UNCHANGED <<db, hist, nextPid>>
    ELSE IF app.binary_hash = Some(h)
    THEN /\ r = "Ok"
         /\ UNCHANGED <<db, hist, nextPid>>
    ELSE /\ r = "Ok"
         /\ db' = apps_save([app EXCEPT !.state = "Deployed",
                                        !.binary_path = Some(1),
                                        !.binary_hash = Some(h)], n)
         /\ UNCHANGED <<hist, nextPid>>

\* variant: the running check is missing
delete_execute_NoRunningCheck(n, r) ==
    LET app == get_by_name(n) IN
    IF ~app.exists
    THEN /\ r = "AppNotFound"
         /\ UNCHANGED <<db, hist, nextPid>>
    ELSE \/ /\ r = "DirectoryError"
            /\ UNCHANGED <<db, hist, nextPid>>
         \/ /\ r = "Ok"
            /\ db' = [db EXCEPT ![n] = NoApp]
            /\ hist' = [hist EXCEPT ![n] = <<>>]
            /\ UNCHANGED nextPid

\* variant: the rows of process_history are left in the store
delete_execute_KeepHistory(n, r) ==
    LET app == get_by_name(n) IN
    IF ~app.exists
    THEN /\ r = "AppNotFound"
         /\ UNCHANGED <<db, hist, nextPid>>
    ELSE IF is_running(app)
    THEN /\ r = "AppRunning"
         /\ UNCHANGED <<db, hist, nextPid>>
    ELSE \/ /\ r = "DirectoryError"
            /\ UNCHANGED <<db, hist, nextPid>>
         \/ /\ r = "Ok"
            /\ db' = [db EXCEPT ![n] = NoApp]
            /\ UNCHANGED <<hist, nextPid>>

\* delete::execute: remove_dir_all, then apps::delete_by_app_id, which
\* deletes the rows of process_history and the row of apps
delete_execute(n, r) ==
    LET app == get_by_name(n) IN
    IF ~app.exists
    THEN /\ r = "AppNotFound"
         /\ UNCHANGED <<db, hist, nextPid>>
    ELSE IF is_running(app)
    THEN /\ r = "AppRunning"
         /\ UNCHANGED <<db, hist, nextPid>>
    ELSE \/ /\ r = "DirectoryError"
            /\ UNCHANGED <<db, hist, nextPid>>
         \/ /\ r = "Ok"
            /\ db' = [db EXCEPT ![n] = NoApp]
            /\ hist' = [hist EXCEPT ![n] = <<>>]
            /\ UNCHANGED nextPid

\* stop::execute: kills by the recorded pid; the Supervisor's table is not
\* involved
stop_execute(n, r) ==
    LET app == get_by_name(n) IN
    IF ~app.exists
    THEN /\ r = "AppNotFound"
         /\ UNCHANGED <<db, hist, nextPid>>
    ELSE IF app.state # "Running"
    THEN /\ r = "Ok"
         /\ UNCHANGED <<db, hist, nextPid>>
    ELSE IF ~IsSome(app.process_id)
    THEN /\ r = "NoProcessId"
         /\ UNCHANGED <<db, hist, nextPid>>
    ELSE /\ r = "Ok"
         /\ db' = apps_save([app EXCEPT !.state = "Stopped",
                                        !.process_id = None], n)
         /\ UNCHANGED <<hist, nextPid>>

\* api::start_app: start::execute called directly, the Child it returns is
\* dropped
start_execute(n, r) ==
    LET app == get_by_name(n) IN
    IF ~app.exists
    THEN /\ r = "AppNotFound"
         /\ UNCHANGED <<db, hist, nextPid>>
    ELSE IF is_running(app)
    THEN /\ r = "AppAlreadyRunning"
         /\ UNCHANGED <<db, hist, nextPid>>
    ELSE IF ~is_deployed(app) \/ ~IsSome(app.binary_path)
    THEN /\ r = "AppNotDeployed"
         /\ UNCHANGED <<db, hist, nextPid>>
    ELSE \/ /\ r \in StartFailures
            /\ db' = apps_save([app EXCEPT !.state = "Starting"], n)
            /\ UNCHANGED <<hist, nextPid>>
         \/ /\ r = "Ok"
            /\ nextPid < MaxPid
            /\ nextPid' = nextPid + 1
            /\ hist' = history_insert(n, NewHistory)
            /\ db' = apps_save([app EXCEPT !.state = "Running",
                                           !.process_id = Some(nextPid + 1)], n)

CommandResults ==
    {"Ok", "AppNotFound", "AppAlreadyExists", "AppRunning", "DirectoryError",
     "NoProcessId", "AppAlreadyRunning", "AppNotDeployed"} \cup StartFailures

Create(n) ==
    /\ pc = "idle"
    /\ lastResult = NoResult
    /\ \E r \in CommandResults :
          /\ create_execute(n, r)
          /\ lastResult' = [kind |-> "Create", name |-> n, res |-> r]
    /\ UNCHANGED <<procs, pc, stack, cur, lapp, child, xcode, todo, snap,
                   queue, cli>>

Deploy(n, h) ==
    /\ pc = "idle"
    /\ lastResult = NoResult
    /\ \E r \in CommandResults :
          /\ deploy_execute(n, h, r)
          /\ lastResult' = [kind |-> "Deploy", name |-> n, res |-> r,
                            hash |-> h]
    /\ UNCHANGED <<procs, pc, stack, cur, lapp, child, xcode, todo, snap,
                   queue, cli>>

Delete(n) ==
    /\ pc = "idle"
    /\ lastResult = NoResult
    /\ \E r \in CommandResults :
          /\ delete_execute(n, r)
          /\ lastResult' = [kind |-> "Delete", name |-> n, res |-> r]
    /\ UNCHANGED <<procs, pc, stack, cur, lapp, child, xcode, todo, snap,
                   queue, cli>>

CliStop(n) ==
    /\ pc = "idle"
    /\ lastResult = NoResult
    /\ \E r \in CommandResults :
          /\ stop_execute(n, r)
          /\ lastResult' = [kind |-> "CliStop", name |-> n, res |-> r]
    /\ UNCHANGED <<procs, pc, stack, cur, lapp, child, xcode, todo, snap,
                   queue, cli>>

ApiStart(n) ==
    /\ pc = "idle"
    /\ lastResult = NoResult
    /\ \E r \in CommandResults :
          /\ start_execute(n, r)
          /\ lastResult' = [kind |-> "ApiStart", name |-> n, res |-> r]
    /\ UNCHANGED <<procs, pc, stack, cur, lapp, child, xcode, todo, snap,
                   queue, cli>>

Commands ==
    \/ \E n \in Names : Create(n)
    \/ \E n \in Names, h \in Hashes : Deploy(n, h)
    \/ \E n \in Names : Delete(n)
    \/ \E n \in Names : CliStop(n)
    \/ \E n \in Names : ApiStart(n)

\* variant: an error ends the loop
Return_BreakOnError ==
    /\ pc = "idle"
    /\ lastResult # NoResult
    /\ lastResult' = NoResult
    /\ pc' = IF lastResult.res = "Ok" THEN "idle" ELSE "stopped"
    /\ UNCHANGED <<db, hist, procs, nextPid, stack, cur, lapp, child,
                   xcode, todo, snap, queue, cli>>

\* ------------------------------------------------ outcomes
\* The outcome of a handler (logged by the loop), of a command or of a
\* request (returned to the caller) has been delivered; the next operation
\* begins after that.
Return ==
    /\ pc = "idle"
    /\ lastResult # NoResult
    /\ lastResult' = NoResult
    /\ UNCHANGED <<db, hist, procs, nextPid, pc, stack, cur, lapp, child,
                   xcode, todo, snap, queue, cli>>

\* ------------------------------------------------ Gateway (serve.rs)
\* the leftmost label of the Host header
Labels == Names \cup {"ghost", "admin"}

\* variant: the state of the record is not looked at
proxy_to_app_NoStateCheck(label) ==
    LET app == IF label \in Names THEN get_by_name(label) ELSE NoApp IN
    IF ~app.exists
    THEN {[ok |-> FALSE, status |-> "not found", sent |-> FALSE]}
    ELSE {[ok |-> TRUE, status |-> "upstream", sent |-> TRUE],
          [ok |-> FALSE, status |-> "request failed", sent |-> TRUE]}

\* proxy_to_app: Err for a name without a record, 503 unless the record is
\* Running, else the request goes upstream and the answer, or the Err of
\* the client, comes back
proxy_to_app(label) ==
    LET app == IF label \in Names THEN get_by_name(label) ELSE NoApp IN
    IF ~app.exists
    THEN {[ok |-> FALSE, status |-> "not found", sent |-> FALSE]}
    ELSE IF app.state # "Running"
    THEN {[ok |-> TRUE, status |-> "503", sent |-> FALSE]}
    ELSE {[ok |-> TRUE, status |-> "upstream", sent |-> TRUE],
          [ok |-> FALSE, status |-> "request failed", sent |-> TRUE]}

\* handle_request: the API prefix of the path first, then the label admin,
\* then the proxy, whose Err becomes a 500
handle_request(label, api) ==
    IF api THEN {[status |-> "api", sent |-> FALSE]}
    ELSE IF label = "admin" THEN {[status |-> "admin", sent |-> FALSE]}
    ELSE {[status |-> IF r.ok THEN r.status ELSE "500", sent |-> r.sent] :
             r \in proxy_to_app(label)}

\* one request served; the Gateway reads the store and writes nothing
HandleRequest(label, api) ==
    /\ pc = "idle"
    /\ lastResult = NoResult
    /\ \E resp \in handle_request(label, api) :
          lastResult' = [kind |-> "Request", name |-> label,
                         res |-> resp.status, sent |-> resp.sent]
    /\ UNCHANGED <<db, hist, procs, nextPid, pc, stack, cur, lapp, child,
                   xcode, todo, snap, queue, cli>>

Gateway == \E label \in Labels, api \in BOOLEAN : HandleRequest(label, api)

\* -------------------------------------------------------------- Next
\* the steps of the handlers, of the tick and of the restore
Handlers ==
    \/ HandleStartGet
    \/ ExecGet
    \/ ExecSaveStarting
    \/ ExecSpawn
    \/ ExecHistory
    \/ ExecSaveRunning
    \/ StopGet
    \/ StopSaveStopping
    \/ StopKill
    \/ StopHistory
    \/ StopSaveStopped
    \/ StopSaveNoProc
    \/ RestartGet
    \/ RestartSleep
    \/ ExitGet
    \/ ExitHistory
    \/ ExitDecide
    \/ ExitSleep
    \/ HealthGet
    \/ HealthHttp
    \/ Tick
    \/ TickNext
    \/ RestoreGet
    \/ RestoreNext
    \/ RestoreDemote
    \/ Return

Supervisor == Dispatch \/ Handlers

Next == Supervisor \/ Commands \/ Gateway

Spec == Init /\ [][Next]_vars

\* ------------------------------------------------ the channel
\* SpecQ: the senders put messages on the channel while the consumer works;
\* the consumer takes the next one when the handler before it has returned.
MaxQueue == 2

\* start_app, stop_app, restart_app, check_app_health, notify_process_exit:
\* tx.send(msg) appends the message to the channel
Send(msg) ==
    /\ Len(queue) < MaxQueue
    /\ queue' = Append(queue, msg)
    /\ UNCHANGED <<db, hist, procs, nextPid, pc, stack, cur, lapp, child,
                   xcode, todo, snap, lastResult,
                   cli>>

\* variant: the channel hands out the newest message
Recv_Newest ==
    /\ pc = "idle"
    /\ lastResult = NoResult
    /\ queue # <<>>
    /\ LET msg == queue[Len(queue)] IN
          /\ msg.kind = "ProcessExit" => db[msg.name].restart_count < MaxCount
          /\ cur' = msg
          /\ pc' = Entry(msg.kind)
    /\ queue' = SubSeq(queue, 1, Len(queue) - 1)
    /\ lastResult' = NoResult
    /\ UNCHANGED <<db, hist, procs, nextPid, stack, lapp, child, xcode,
                   todo, snap, cli>>

\* rx.recv() in the select! of the loop: the oldest message of the channel
Recv ==
    /\ pc = "idle"
    /\ lastResult = NoResult
    /\ queue # <<>>
    /\ LET msg == Head(queue) IN
          /\ msg.kind = "ProcessExit" => db[msg.name].restart_count < MaxCount
          /\ cur' = msg
          /\ pc' = Entry(msg.kind)
    /\ queue' = Tail(queue)
    /\ lastResult' = NoResult
    /\ UNCHANGED <<db, hist, procs, nextPid, stack, lapp, child, xcode,
                   todo, snap, cli>>

NextQ ==
    \/ \E msg \in Messages : Send(msg)
    \/ Recv
    \/ Handlers

SpecQ == Init /\ [][NextQ]_vars

\* ------------------------------------------------ progress
\* SpecLive: the Supervisor alone.  The loop is one task that runs a handler
\* to its end before it takes anything else: the store answers, the sleeps
\* end, kill and wait return.  So a handler that has begun takes its next
\* step and its outcome is logged, and the interval timer keeps ticking
\* while the loop waits.  When the next message comes is up to the senders
\* and is not forced.
HandlerStep == pc # "idle" /\ Handlers

SpecLive ==
    /\ Init
    /\ [][Supervisor]_vars
    /\ WF_vars(HandlerStep)
    /\ WF_vars(Return)
    /\ WF_vars(Tick)

\* ------------------------------------------------ names (models.rs)
\* SpecCreate: create::execute called with the text the user typed.  A text
\* is kept as its length in bytes and the set of characters that occur in
\* it, which is all that is_valid_app_name looks at.
MaxNameLen == 64

AsciiLowercase ==
    {"a", "b", "c", "d", "e", "f", "g", "h", "i", "j", "k", "l", "m", "n",
     "o", "p", "q", "r", "s", "t", "u", "v", "w", "x", "y", "z"}

AsciiDigits == {"0", "1", "2", "3", "4", "5", "6", "7", "8", "9"}

\* the characters and the lengths the texts are drawn from
Alphabet == {"s", "v", "c", "1", "-", "_", "A", "."}

NameLens == {0, 1, 4, MaxNameLen - 1, MaxNameLen, MaxNameLen + 1}

Texts ==
    {t \in [len : NameLens, chars : SUBSET Alphabet] :
        /\ (t.len = 0) = (t.chars = {})
        /\ Cardinality(t.chars) <= t.len}

\* the text of each name the store is modelled for
TextOf(n) == [len |-> 4, chars |-> {"s", "v", "c", "1"}]

\* variant: the limit of the length is one too low
is_valid_app_name_Short(t) ==
    IF t.len = 0 \/ t.len >= MaxNameLen
    THEN FALSE
    ELSE \A c \in t.chars :
            c \in AsciiLowercase \/ c \in AsciiDigits \/ c = "-" \/ c = "_"

\* is_valid_app_name
is_valid_app_name(t) ==
    IF t.len = 0 \/ t.len > MaxNameLen
    THEN FALSE
    ELSE \A c \in t.chars :
            c \in AsciiLowercase \/ c \in AsciiDigits \/ c = "-" \/ c = "_"

\* create::execute on a text: get_by_name, App::new (which validates),
\* provider.setup, apps::save.  `setup` tells whether provider.setup was
\* called.  Only the records of Names are kept: a record saved under another
\* valid name is outside the store of the model.
create_text(t, r, setup) ==
    LET known == {n \in Names : TextOf(n) = t} IN
    IF \E n \in known : get_by_name(n).exists
    THEN /\ r = "AppAlreadyExists"
         /\ setup = FALSE
         /\ UNCHANGED <<db, hist, nextPid>>
    ELSE IF ~is_valid_app_name(t)
    THEN /\ r = "InvalidName"
         /\ setup = FALSE
         /\ UNCHANGED <<db, hist, nextPid>>
    ELSE /\ r = "Ok"
         /\ setup = TRUE
         /\ db' = [n \in Names |-> IF n \in known THEN AppNew ELSE db[n]]
         /\ UNCHANGED <<hist, nextPid>>

CreateText(t) ==
    /\ pc = "idle"
    /\ lastResult = NoResult
    /\ \E r \in {"Ok", "AppAlreadyExists", "InvalidName"}, setup \in BOOLEAN :
          /\ create_text(t, r, setup)
          /\ lastResult' = [kind |-> "CreateText", text |-> t, res |-> r,
                            setup |-> setup]
    /\ UNCHANGED <<procs, pc, stack, cur, lapp, child, xcode, todo, snap,
                   queue, cli>>

\* the restore at startup, then create and delete from the CLI
NextCreate ==
    \/ RestoreGet
    \/ RestoreNext
    \/ RestoreDemote
    \/ ExecGet
    \/ \E t \in Texts : CreateText(t)
    \/ \E n \in Names : Delete(n)
    \/ Return

SpecCreate == Init /\ [][NextCreate]_vars

\* ------------------------------------------------ concurrent commands
\* SpecRace: the admin API handlers run in their own tasks and the CLI in
\* its own process, all on the same store; nothing holds them back while a
\* handler of the Supervisor is between two of its awaits.
OutsideSupervisor ==
    UNCHANGED <<procs, pc, stack, cur, lapp, child, xcode, todo, snap,
                queue, cli, lastResult>>

RaceCreate(n) ==
    /\ \E r \in CommandResults : create_execute(n, r)
    /\ OutsideSupervisor

RaceDeploy(n, h) ==
    /\ \E r \in CommandResults : deploy_execute(n, h, r)
    /\ OutsideSupervisor

RaceDelete(n) ==
    /\ \E r \in CommandResults : delete_execute(n, r)
    /\ OutsideSupervisor

RaceStop(n) ==
    /\ \E r \in CommandResults : stop_execute(n, r)
    /\ OutsideSupervisor

RaceStart(n) ==
    /\ \E r \in CommandResults : start_execute(n, r)
    /\ OutsideSupervisor

NextRace ==
    \/ Supervisor
    \/ \E n \in Names : RaceCreate(n)
    \/ \E n \in Names, h \in Hashes : RaceDeploy(n, h)
    \/ \E n \in Names : RaceDelete(n)
    \/ \E n \in Names : RaceStop(n)
    \/ \E n \in Names : RaceStart(n)

\* one app with the restart settings left as they are after create
InitRace ==
    /\ Init
    /\ db["svc1"].restart_policy = AppNew.restart_policy
    /\ db["svc1"].health_check = AppNew.health_check
    /\ db["svc1"].max_restarts = Some(MaxCap)

SpecRace == InitRace /\ [][NextRace]_vars

\* SpecQLive: the channel with the progress of the loop.  A handler that
\* has begun takes its next step and its outcome is logged (weak fairness).
\* Between two handlers select! picks among the branches that are ready, and
\* the ticks are 10 s apart, so a message that waits in the channel is not
\* passed over for ever (strong fairness of Recv).  The senders are not
\* forced to send.
SpecQLive ==
    /\ InitRace
    /\ [][NextQ]_vars
    /\ WF_vars(HandlerStep)
    /\ WF_vars(Return)
    /\ SF_vars(Recv)

\* ------------------------------------------------ env (app_env.rs)
\* SpecEnv: set_env runs in the process of the CLI while the Supervisor
\* works.  It reads the record, changes the environment of its copy and
\* saves the copy; the two store calls are separate awaits.  The environment
\* itself is not among the fields of the model.
EnvGet(n) ==
    /\ cli = NoCli
    /\ LET app == get_by_name(n) IN
       IF ~app.exists
       THEN UNCHANGED cli
       ELSE cli' = [name |-> n, app |-> app]
    /\ UNCHANGED <<db, hist, procs, nextPid, pc, stack, cur, lapp, child,
                   xcode, todo, snap, lastResult, queue>>

EnvSave ==
    /\ cli # NoCli
    /\ db' = apps_save(cli.app, cli.name)
    /\ cli' = NoCli
    /\ UNCHANGED <<hist, procs, nextPid, pc, stack, cur, lapp, child,
                   xcode, todo, snap, lastResult, queue>>

NextEnv ==
    \/ Supervisor
    \/ \E n \in Names : EnvGet(n)
    \/ EnvSave

SpecEnv == InitRace /\ [][NextEnv]_vars

\* ============================================================ properties
Last(q) == q[Len(q)]

ProviderErrors == StartFailures \cup {"KillFailed", "WaitFailed"}

C2_SuccessfulStart ==
    [][ /\ (pc = "ex_spawn" /\ nextPid' # nextPid)
            => /\ db[cur.name].exists
               /\ db[cur.name].state = "Starting"
               /\ ~IsSome(procs[cur.name])
        /\ (pc = "ex_hist")
            => hist'[cur.name] = Append(hist[cur.name],
                   [ended_at |-> FALSE, exit_code |-> None, exit_reason |-> None])
        /\ (pc \in {"hs_get", "ex_get", "ex_save_starting", "ex_spawn",
                    "ex_save_running"})
            => hist' = hist
        /\ (pc = "ex_save_running")
            => /\ IsSome(child)
               /\ Unwrap(child) = nextPid
               /\ db'[cur.name].state = "Running"
               /\ db'[cur.name].process_id = child
               /\ procs'[cur.name] = child
               /\ hist[cur.name] # <<>>
               /\ ~Last(hist[cur.name]).ended_at ]_vars

C2_Witness ==
    /\ lastResult = [kind |-> "Start", name |-> "svc1", res |-> "Ok"]
    /\ db["svc1"].state = "Running"
    /\ IsSome(procs["svc1"])
    /\ db["svc1"].process_id = procs["svc1"]
    /\ Len(hist["svc1"]) = 1

C4_StartUnknownName ==
    [][ (pc = "hs_get" /\ stack = <<>> /\ ~db[cur.name].exists)
        => /\ lastResult' = [kind |-> "Start", name |-> cur.name,
                             res |-> "AppNotFound"]
           /\ ~db'[cur.name].exists
           /\ ~IsSome(procs'[cur.name]) ]_vars

\* C5: ProcessExit(name, 1) under OnFailure with restart_count below
\* max_restarts persists Restarting with restart_count one higher, and after
\* the backoff the Supervisor enters the start path for that app.
C5_RestartOnFailure ==
    [][ /\ (/\ pc = "pe_decide"
            /\ cur.code = 1
            /\ db[cur.name].restart_policy = "OnFailure"
            /\ IsSome(db[cur.name].max_restarts)
            /\ db[cur.name].restart_count < Unwrap(db[cur.name].max_restarts))
            => /\ db'[cur.name].state = "Restarting"
               /\ db'[cur.name].restart_count = db[cur.name].restart_count + 1
               /\ pc' = "pe_sleep"
        /\ (pc = "pe_sleep")
            => /\ pc' = "ex_get"
               /\ cur' = cur
               /\ Last(stack') = "ProcessExit" ]_vars

C5_Witness ==
    /\ pc = "ex_get"
    /\ stack = <<"ProcessExit">>
    /\ cur = [kind |-> "ProcessExit", name |-> "svc1", code |-> 1]
    /\ db["svc1"].restart_policy = "OnFailure"
    /\ db["svc1"].state = "Restarting"
    /\ db["svc1"].restart_count = 1

\* C6: a non-zero exit of an app whose policy restarts it and whose
\* restart_count has reached max_restarts persists Crashed, leaves
\* restart_count as it is and starts nothing; no ProcessExit handled for a
\* Crashed app leads to an automatic start.
C6_CrashedAtCap ==
    [][ /\ (/\ pc = "pe_decide"
            /\ cur.code # 0
            /\ db[cur.name].restart_policy \in {"Always", "OnFailure"}
            /\ IsSome(db[cur.name].max_restarts)
            /\ db[cur.name].restart_count >= Unwrap(db[cur.name].max_restarts))
            => /\ db'[cur.name].state = "Crashed"
               /\ db'[cur.name].restart_count = db[cur.name].restart_count
               /\ pc' # "pe_sleep"
               /\ nextPid' = nextPid
        /\ (pc = "pe_decide" /\ db[cur.name].state = "Crashed")
            => /\ pc' # "pe_sleep"
               /\ nextPid' = nextPid ]_vars

C6_Witness ==
    /\ lastResult = [kind |-> "ProcessExit", name |-> "svc1", res |-> "MaxRestarts"]
    /\ db["svc1"].state = "Crashed"
    /\ db["svc1"].max_restarts = Some(1)
    /\ db["svc1"].restart_count = 1

\* C7: ProcessExit(name, 0) under OnFailure persists Stopped and does not
\* restart, whatever restart_count and max_restarts are.
C7_CleanExitOnFailure ==
    [][ (/\ pc = "pe_decide"
         /\ cur.code = 0
         /\ db[cur.name].restart_policy = "OnFailure")
        => /\ db'[cur.name].state = "Stopped"
           /\ pc' # "pe_sleep" ]_vars

C7_Witness ==
    /\ lastResult = [kind |-> "ProcessExit", name |-> "svc1", res |-> "Ok"]
    /\ db["svc1"].restart_policy = "OnFailure"
    /\ db["svc1"].last_exit_code = Some(0)
    /\ db["svc1"].state = "Stopped"
    /\ db["svc1"].restart_count = 1
    /\ db["svc1"].max_restarts = Some(1)

\* C8: when the policy does not allow a restart (Never, or OnFailure with
\* exit code 0) ProcessExit starts nothing and persists Stopped for exit
\* code 0 and Failed otherwise.
C8_NoRestartState ==
    [][ (/\ pc = "pe_decide"
         /\ \/ db[cur.name].restart_policy = "Never"
            \/ db[cur.name].restart_policy = "OnFailure" /\ cur.code = 0)
        => /\ pc' # "pe_sleep"
           /\ nextPid' = nextPid
           /\ db'[cur.name].state = IF cur.code = 0 THEN "Stopped" ELSE "Failed" ]_vars

C8_Witness ==
    /\ lastResult = [kind |-> "ProcessExit", name |-> "svc1", res |-> "Ok"]
    /\ db["svc1"].restart_policy = "Never"
    /\ db["svc1"].last_exit_code = Some(1)
    /\ db["svc1"].state = "Failed"

\* C9: Stop of an app with a handle in the table takes the handle out of the
\* table, persists Stopping, and (the kill and the wait returning) closes
\* the app's newest ProcessHistory row, which is open, with the reason
\* "Stopped by user", then persists Stopped with process_id cleared.
C9_StopLiveHandle ==
    [][ /\ (pc = "st_get" /\ db[cur.name].exists /\ IsSome(procs[cur.name]))
            => /\ pc' = "st_save_stopping"
               /\ ~IsSome(procs'[cur.name])
        /\ (pc = "st_save_stopping")
            => db'[cur.name].state = "Stopping"
        /\ (pc \in {"st_kill", "st_hist", "st_save_stopped"})
            => /\ db[cur.name].state = "Stopping"
               /\ ~IsSome(procs[cur.name])
        /\ (pc = "st_hist" /\ hist[cur.name] # <<>>)
            => /\ ~Last(hist[cur.name]).ended_at
               /\ Len(hist'[cur.name]) = Len(hist[cur.name])
               /\ Last(hist'[cur.name]) =
                     [ended_at |-> TRUE, exit_code |-> xcode,
                      exit_reason |-> Some("Stopped by user")]
        /\ (pc = "st_save_stopped")
            => /\ db'[cur.name].state = "Stopped"
               /\ db'[cur.name].process_id = None
               /\ ~IsSome(procs'[cur.name])
               /\ hist[cur.name] # <<>> =>
                     Last(hist[cur.name]).exit_reason = Some("Stopped by user") ]_vars

C9_Witness ==
    /\ lastResult = [kind |-> "Stop", name |-> "svc1", res |-> "Ok"]
    /\ db["svc1"].state = "Stopped"
    /\ db["svc1"].process_id = None
    /\ ~IsSome(procs["svc1"])
    /\ Len(hist["svc1"]) = 2
    /\ Last(hist["svc1"]).exit_reason = Some("Stopped by user")

\* C10: Restart(name) of a deployed app, running before or not, ends with
\* the app in state Running with a handle in the process table (provider
\* failures aside).
C10_RestartEndsRunning ==
    (/\ lastResult.kind = "Restart"
     /\ lastResult.res \notin ProviderErrors
     /\ db[lastResult.name].exists
     /\ IsSome(db[lastResult.name].binary_path))
    => /\ db[lastResult.name].state = "Running"
       /\ IsSome(procs[lastResult.name])

\* C11: warm restore relaunches every record persisted as Running: a record
\* is demoted to Failed only after the launch was attempted and failed, and
\* when restore is over no record is Running without a handle in the table.
C11_WarmRestore ==
    [][ /\ (pc' = "restore_demote" /\ pc # "restore_demote")
            => pc = "ex_spawn"
        /\ (pc = "restore_next" /\ pc' = "idle")
            => \A n \in Names :
                  (db'[n].exists /\ db'[n].state = "Running")
                      => IsSome(procs'[n]) ]_vars

\* C12: whenever the Supervisor is between two messages, a record's
\* process_id is set exactly when the process table holds a handle for it.
C12_ProcessIdIffHandle ==
    pc = "idle" =>
        \A n \in Names :
            db[n].exists => (IsSome(db[n].process_id) <=> IsSome(procs[n]))

C14_NoLostUpdate ==
    [][ (pc' # pc)
        => \A n \in Names :
              /\ db'[n].exists = db[n].exists
              /\ db'[n].binary_hash = db[n].binary_hash
              /\ db'[n].binary_path = db[n].binary_path ]_vars

\* C15: a request routed to the proxy for a name with a record goes upstream
\* only if the record read is Running; for a record in any other state the
\* answer is 503 and nothing is sent upstream.
C15_ForwardOnlyRunning ==
    [][ \A n \in Names :
          (/\ lastResult'.kind = "Request"
           /\ lastResult'.name = n
           /\ lastResult'.res # "api"
           /\ db[n].exists)
          => IF db[n].state = "Running"
             THEN lastResult'.sent
             ELSE lastResult'.res = "503" /\ ~lastResult'.sent ]_vars

C15_Witness ==
    /\ lastResult = [kind |-> "Request", name |-> "svc1", res |-> "503",
                     sent |-> FALSE]
    /\ db["svc1"].exists
    /\ db["svc1"].state = "Restarting"

\* C16: a request whose label is not reserved and has no record is answered
\* with 404.
C16_UnknownLabel404 ==
    [][ (/\ lastResult'.kind = "Request"
         /\ lastResult'.res # "api"
         /\ lastResult'.name # "admin"
         /\ (lastResult'.name \in Names => ~db[lastResult'.name].exists))
        => lastResult'.res = "404" ]_vars

\* C17: delete of a record whose state is Running fails with AppRunning and
\* leaves the record and the rows of its ProcessHistory as they are.
C17_DeleteRunning ==
    [][ \A n \in Names :
          (/\ lastResult = NoResult
           /\ lastResult'.kind = "Delete"
           /\ lastResult'.name = n
           /\ db[n].exists
           /\ db[n].state = "Running")
          => /\ lastResult'.res = "AppRunning"
             /\ db' = db
             /\ hist' = hist ]_vars

C17_Witness ==
    /\ lastResult = [kind |-> "Delete", name |-> "svc1", res |-> "AppRunning"]
    /\ db["svc1"].exists
    /\ db["svc1"].state = "Running"
    /\ Len(hist["svc1"]) = 1

\* C18: delete of a record in a state other than Running, the directory of
\* the app removed, takes the record and every row of its ProcessHistory
\* out of the store, and get_by_name finds nothing afterwards; the one
\* other outcome is the error of the directory removal.
C18_DeleteRemoves ==
    [][ \A n \in Names :
          (/\ lastResult = NoResult
           /\ lastResult'.kind = "Delete"
           /\ lastResult'.name = n
           /\ db[n].exists
           /\ db[n].state # "Running")
          => /\ lastResult'.res \in {"Ok", "DirectoryError"}
             /\ lastResult'.res = "Ok"
                   => /\ ~db'[n].exists
                      /\ db'[n] = NoApp
                      /\ hist'[n] = <<>> ]_vars

C18_Witness ==
    /\ lastResult = [kind |-> "Delete", name |-> "svc1", res |-> "Ok"]
    /\ ~get_by_name("svc1").exists
    /\ hist["svc1"] = <<>>
    /\ nextPid = 1

\* C19: deploy of a binary whose hash is the stored binary_hash saves
\* nothing: the record, in whatever state, and the history are unchanged.
C19_DeploySameHash ==
    [][ \A n \in Names :
          (/\ lastResult = NoResult
           /\ lastResult'.kind = "Deploy"
           /\ lastResult'.name = n
           /\ db[n].exists
           /\ db[n].binary_hash = Some(lastResult'.hash))
          => /\ lastResult'.res = "Ok"
             /\ db' = db
             /\ hist' = hist ]_vars

C19_Witness ==
    /\ lastResult = [kind |-> "Deploy", name |-> "svc1", res |-> "Ok",
                     hash |-> 1]
    /\ db["svc1"].binary_hash = Some(1)
    /\ db["svc1"].state = "Running"

C21_Accepted(t) ==
    /\ t.len >= 1
    /\ t.len <= 64
    /\ t.chars \subseteq
          {"a", "b", "c", "d", "e", "f", "g", "h", "i", "j", "k", "l", "m",
           "n", "o", "p", "q", "r", "s", "t", "u", "v", "w", "x", "y", "z",
           "0", "1", "2", "3", "4", "5", "6", "7", "8", "9", "-", "_"}

C21_CreateValidatesName ==
    [][(pc = "idle" /\ lastResult = NoResult /\ lastResult' # NoResult
        /\ lastResult'.kind = "CreateText") =>
          LET t == lastResult'.text IN
          IF C21_Accepted(t)
          THEN /\ lastResult'.res \in {"Ok", "AppAlreadyExists"}
               /\ lastResult'.res = "Ok" =>
                     /\ lastResult'.setup
                     /\ \A n \in Names : TextOf(n) = t => db'[n] = AppNew
          ELSE /\ lastResult'.res = "InvalidName"
               /\ ~lastResult'.setup
               /\ UNCHANGED <<db, hist, procs, nextPid>>]_vars

\* a valid text was accepted and its record is in the store as App::new
\* made it
C21_Witness ==
    /\ lastResult # NoResult
    /\ lastResult.kind = "CreateText"
    /\ lastResult.res = "Ok"
    /\ lastResult.text = TextOf("svc1")
    /\ db["svc1"] = AppNew

\* C22: Start of a record that is Stopped, has a binary_path and has no
\* handle in the process table is accepted: start::execute goes on to
\* persist Starting, and the handler ends with the record Running.
C22_StartFromStopped ==
    [][ /\ (/\ pc = "ex_get"
            /\ cur.kind = "Start"
            /\ stack = <<>>
            /\ db[cur.name].exists
            /\ db[cur.name].state = "Stopped"
            /\ IsSome(db[cur.name].binary_path)
            /\ ~IsSome(procs[cur.name]))
            => /\ pc' = "ex_save_starting"
               /\ lapp'.state = "Starting"
        /\ (/\ pc = "ex_save_running"
            /\ cur.kind = "Start"
            /\ stack = <<>>)
            => /\ db'[cur.name].state = "Running"
               /\ IsSome(procs'[cur.name]) ]_vars

\* C23: an explicit Start of a record that is Crashed (binary_path set, no
\* handle in the table) is accepted, so that the app can end Running again.
C23_StartFromCrashed ==
    [][ (/\ pc = "ex_get"
         /\ cur.kind = "Start"
         /\ stack = <<>>
         /\ db[cur.name].exists
         /\ db[cur.name].state = "Crashed"
         /\ IsSome(db[cur.name].binary_path)
         /\ ~IsSome(procs[cur.name]))
        => \/ pc' = "ex_save_starting"
           \/ /\ pc' = "idle"
              /\ lastResult'.res \notin {"AppNotDeployed", "AppAlreadyRunning",
                                         "AppNotFound"} ]_vars

\* C24: under Always with restart_count below the cap, a ProcessExit with
\* a non-zero code persists Restarting with restart_count one higher, and
\* the automatic restart then completes: the app is Running again with a
\* handle in the table and the process_id of the new process (unless the
\* provider fails to launch it).
C24_AutoRestartCompletes ==
    /\ [][ (/\ pc = "pe_decide"
            /\ cur.code # 0
            /\ lapp.restart_policy = "Always"
            /\ ~reached_max_restarts(lapp))
            => /\ db'[cur.name].state = "Restarting"
               /\ db'[cur.name].restart_count = lapp.restart_count + 1
               /\ pc' = "pe_sleep" ]_vars
    /\ (/\ pc = "pe_sleep"
        /\ cur = [kind |-> "ProcessExit", name |-> "svc1", code |-> 1]
        /\ lapp.restart_policy = "Always")
        ~> \/ /\ db["svc1"].state = "Running"
              /\ IsSome(procs["svc1"])
              /\ db["svc1"].process_id = procs["svc1"]
           \/ /\ lastResult.kind = "ProcessExit"
              /\ lastResult.res \in StartFailures

\* C25 as stated: when the process of a Running app exits with code 0, the
\* record is persisted Stopped, whatever the restart_policy.
C25_CleanExitStopped ==
    [][ (/\ pc = "pe_decide"
         /\ cur.code = 0
         /\ db[cur.name].state = "Running")
        => db'[cur.name].state = "Stopped" ]_vars

\* C25 amended: when the process of a Running app exits with code 0, the
\* record is persisted Stopped under OnFailure and Never; under Always the
\* policy asks for a restart, and the record is persisted Restarting, or
\* Crashed when the cap is reached.
C25_CleanExitByPolicy ==
    [][ (/\ pc = "pe_decide"
         /\ cur.code = 0
         /\ db[cur.name].state = "Running")
        => IF db[cur.name].restart_policy = "Always"
           THEN db'[cur.name].state \in {"Restarting", "Crashed"}
           ELSE /\ db'[cur.name].state = "Stopped"
                /\ lastResult' = [kind |-> "ProcessExit", name |-> cur.name,
                                  res |-> "Ok"] ]_vars

\* a process started by the Supervisor exited with 0 under OnFailure and the
\* record is Stopped
C25_Witness ==
    /\ lastResult = [kind |-> "ProcessExit", name |-> "svc1", res |-> "Ok"]
    /\ db["svc1"].restart_policy = "OnFailure"
    /\ db["svc1"].state = "Stopped"
    /\ db["svc1"].last_exit_code = Some(0)
    /\ hist["svc1"] # <<>>
    /\ Last(hist["svc1"]).exit_reason = Some("Clean exit")

\* C26: Stop of a record that is persisted Running while the process table
\* has no handle for it kills nothing, persists Stopped with process_id
\* cleared and returns success.
C26_StopReconciles ==
    [][ /\ (/\ pc = "st_get"
            /\ cur.kind = "Stop"
            /\ db[cur.name].exists
            /\ db[cur.name].state = "Running"
            /\ ~IsSome(procs[cur.name]))
            => /\ pc' = "st_save_noproc"
               /\ lapp' = db[cur.name]
               /\ UNCHANGED <<db, hist, procs>>
        /\ (/\ pc = "st_save_noproc"
            /\ cur.kind = "Stop"
            /\ lapp.state = "Running")
            => /\ db'[cur.name].state = "Stopped"
               /\ db'[cur.name].process_id = None
               /\ lastResult' = [kind |-> "Stop", name |-> cur.name,
                                 res |-> "Ok"]
               /\ UNCHANGED <<hist, procs>> ]_vars

\* a Stop has read a Running record, found no handle for it in the table
\* and is at the save that reconciles the record
C26_Witness ==
    /\ pc = "st_save_noproc"
    /\ cur = [kind |-> "Stop", name |-> "svc1", code |-> 0]
    /\ lapp.state = "Running"
    /\ IsSome(lapp.process_id)
    /\ db["svc1"].state = "Running"
    /\ ~IsSome(procs["svc1"])

\* C27: inside Restart the Stop step is best-effort: however the Stop ends,
\* with an error too, Restart goes on to its 1-second sleep and then to the
\* Start step.
C27_StopSteps ==
    {"st_get", "st_save_stopping", "st_kill", "st_hist", "st_save_stopped",
     "st_save_noproc"}

C27_RestartStopBestEffort ==
    [][ (/\ pc \in C27_StopSteps
         /\ stack # <<>>
         /\ Top(stack) = "Restart"
         /\ pc' \notin C27_StopSteps)
        => pc' = "rs_sleep" ]_vars

\* C28: where the Gateway sends a request (dashboard, admin API, or the
\* proxy to an app) depends on the leftmost label of the Host header only:
\* whatever request was just served, any other request with the same Host
\* and another path goes to the same destination.
C28_Destination(status) ==
    IF status \in {"api", "admin"} THEN status ELSE "proxy"

C28_RouteByHostOnly ==
    (lastResult.kind = "Request") =>
        \A api \in BOOLEAN :
            \A resp \in handle_request(lastResult.name, api) :
                C28_Destination(resp.status) = C28_Destination(lastResult.res)

\* C29: a tick checks exactly the apps that are Running with a health_check,
\* one after the other; a check that passes leads to the next app, a check
\* that fails leads to the Restart of that app inside the same tick, and
\* when the tick moves on the app is back: Running with a handle again
\* (unless the provider fails: the kill or wait of the Stop leaves the record
\* Stopping, the launch of the Start leaves it Starting).
C29_TickRestartsFailing ==
    /\ [][ /\ (pc = "idle" /\ pc' = "tick_next")
               => todo' = {n \in Names : /\ db[n].exists
                                         /\ db[n].state = "Running"
                                         /\ db[n].health_check}
           /\ (pc = "tick_next" /\ pc' = "hc_get")
               => /\ cur'.name \in todo
                  /\ todo' = todo \ {cur'.name}
           /\ (pc = "hc_http" /\ stack = <<"tick">>)
               => pc' \in {"tick_next", "rs_get"}
           /\ (pc' = "rs_get" /\ stack' = <<"tick">>)
               => pc \in {"hc_get", "hc_http"} ]_vars
    /\ (pc = "rs_get" /\ stack = <<"tick">> /\ cur.name = "svc1")
        ~> /\ pc = "tick_next"
           /\ \/ /\ db["svc1"].state = "Running"
                 /\ IsSome(procs["svc1"])
              \/ db["svc1"].state \in {"Stopping", "Starting"}

\* C30: a row of process_history that is closed (ended_at set) stays as it
\* is through every step of the handlers of Stop, ProcessExit, Restart and
\* Start: it keeps its place, its exit_code and its exit_reason.
C30_ClosedRowsFrozen ==
    [][ (pc # "idle" /\ cur.kind \in MsgKinds)
        => \A n \in Names :
              \A i \in DOMAIN hist[n] :
                  hist[n][i].ended_at
                      => /\ i \in DOMAIN hist'[n]
                         /\ hist'[n][i] = hist[n][i] ]_vars

\* C31: the restart_count of a record never goes down, whatever the
\* Supervisor and the env command do and however their steps interleave.
C31_RestartCountMonotonic ==
    [][ \A n \in Names :
           (db[n].exists /\ db'[n].exists)
               => db'[n].restart_count >= db[n].restart_count ]_vars

\* C32: a ProcessExit that is handled for an app whose Stop has completed
\* (the record is Stopped) leaves the record Stopped and starts no restart:
\* the handler neither persists another state nor enters its backoff sleep
\* and start path.
C32_ExitAfterStop ==
    [][ (/\ pc \in {"pe_get", "pe_hist", "pe_decide"}
         /\ cur.kind = "ProcessExit"
         /\ db[cur.name].exists
         /\ db[cur.name].state = "Stopped")
        => /\ db'[cur.name].state = "Stopped"
           /\ pc' \notin {"pe_sleep", "ex_get"} ]_vars

\* C33: whenever the Supervisor is between two messages and its process
\* table holds a handle for an app, the record of that app is Running;
\* deploy, env and delete done outside the Supervisor do not break this.
C33_HandleImpliesRunning ==
    pc = "idle" =>
        \A n \in Names :
            IsSome(procs[n]) => (db[n].exists /\ db[n].state = "Running")

\* C34: a record that delete has removed does not come back through a
\* write of the Supervisor: only create makes a record appear, and a step
\* of a handler that had read the record before the delete does not.
C34_NoResurrection ==
    [][ \A n \in Names :
           (~db[n].exists /\ db'[n].exists) => pc' = pc ]_vars

\* C35: an app never has more than one row of process_history with
\* ended_at null, and whenever the Supervisor is between two messages it has
\* such a row exactly when the process table holds a handle for it.
C35_OpenRows(n) == {i \in DOMAIN hist[n] : ~hist[n][i].ended_at}

C35_OneOpenRowIffLive ==
    \A n \in Names :
        /\ Cardinality(C35_OpenRows(n)) <= 1
        /\ pc = "idle" => ((C35_OpenRows(n) # {}) <=> IsSome(procs[n]))

\* C36: under messages of the Supervisor alone, a record whose max_restarts
\* is set never has a restart_count above it; restart_count goes up by one
\* at each automatic restart and is written by nothing else, so the app is
\* restarted automatically at most max_restarts times.
C36_CountWithinCap ==
    /\ [](\A n \in Names :
            (db[n].exists /\ IsSome(db[n].max_restarts))
                => db[n].restart_count <= Unwrap(db[n].max_restarts))
    /\ [][ \A n \in Names :
              /\ db'[n].max_restarts = db[n].max_restarts
              /\ db'[n].restart_count >= db[n].restart_count
              /\ (pc' = "pe_sleep" /\ pc # "pe_sleep" /\ cur.name = n)
                    => db'[n].restart_count = db[n].restart_count + 1
              /\ (db'[n].restart_count # db[n].restart_count)
                    => pc' = "pe_sleep" ]_vars

\* an automatic restart has brought restart_count up to max_restarts, and
\* the next exit was refused a restart
C36_Witness ==
    /\ lastResult = [kind |-> "ProcessExit", name |-> "svc1",
                     res |-> "MaxRestarts"]
    /\ db["svc1"].state = "Crashed"
    /\ db["svc1"].max_restarts = Some(MaxCap)
    /\ db["svc1"].restart_count = MaxCap
    /\ MaxCap >= 1

\* C37: every handle in the Supervisor's process table belongs to an app
\* whose record exists: delete does not remove the record of an app that
\* has a handle in the table.
C37_HandleImpliesRecord ==
    \A n \in Names : IsSome(procs[n]) => db[n].exists

\* C38: when the kill or the wait of a Stop returns an error the app can
\* still be stopped: its handle is in the process table and the record is
\* not left in Stopping.
C38_FailedStopKeepsHandle ==
    [][ (pc = "st_kill" /\ pc' # "st_hist")
        => /\ IsSome(procs'[cur.name])
           /\ db'[cur.name].state # "Stopping" ]_vars

\* C39: Starting is transient: whenever the Supervisor is between two
\* messages no record is in state Starting, a Start that failed after
\* persisting Starting included.
C39_NoStartingAtIdle ==
    pc = "idle" =>
        \A n \in Names : db[n].exists => db[n].state # "Starting"

\* C40: an error of a handler or of a tick does not end the consumer
\* loop: the handler returns to the loop with the channel as it was, and
\* every message that is in the channel, after an error too, is eventually
\* taken up by the loop.
C40_Errors ==
    CommandResults \cup ProviderErrors
        \cup {"MaxRestarts", "NotInProcessMap", "HealthCheckFailed"}

C40_LoopSurvivesErrors ==
    /\ [][ (pc # "idle" /\ pc' = "idle") => queue' = queue ]_vars
    /\ \A m \in Messages :
          (\E i \in DOMAIN queue : queue[i] = m)
              ~> (cur = m /\ pc = Entry(m.kind))

\* a handler has just failed and two messages wait in the channel
C40_Witness ==
    /\ pc = "idle"
    /\ lastResult.kind \in MsgKinds
    /\ lastResult.res \in C40_Errors \ {"Ok"}
    /\ Len(queue) >= 2

====
